---- MODULE Spec2Model ----
(***************************************************************************)
(* Model of the transaction and bulk-operation subsystem of                *)
(* n8n-nodes-oracle-thin: TransactionManager (savepoints, commit,          *)
(* rollback, retry, statement batches) and BulkOperations (array-bind DML  *)
(* in slices).  Strings are sequences of one-character strings where their *)
(* characters matter (savepoint names) and sequences of text fragments     *)
(* where only containment matters (error messages).                        *)
(***************************************************************************)
EXTENDS Integers, Sequences, FiniteSets, TLC

(* ------------------------------ bounds --------------------------------- *)
MaxClock == 1
MaxSavepoints == 2
MaxRetryCount == 2
MaxOps == 2
MaxPending == 2

(* --------------------------- program state ----------------------------- *)
VARIABLES
  isTransactionActive,   \* TransactionManager.isTransactionActive
  transactionStartTime,  \* <<>> when undefined, <<t>> when set
  savepoints,            \* sequence of [name]: SavepointInfo without timestamp and description
  retryCount,            \* TransactionManager.retryCount
  options,               \* TransactionManager.options (fixed by the constructor)
  now,                   \* the clock read by Date.now() / new Date()
  lastCall,              \* the public method called last
  lastThrew,             \* whether it raised
  lastArg,               \* its savepoint-name argument (<<>> when it has none)
  raised,                \* what the last call raised (NoError when it returned)
  connLog,               \* the calls the last call made on the connection, with outcomes
  attempts,              \* the outcomes of the operation invocations of the last executeWithRetry
  sleeps,                \* the retry delays taken by the last executeWithRetry
  batchResults,          \* the results array of the last executeBatch
  batchArgs,             \* its arguments: operations.length and the two batch options
  pre,                   \* the coordinator as the last call found it, and how the call before ended
  tracing,               \* whether the calls' details (lastArg .. pre) are recorded; fixed at the start
  clsError,              \* the value last handed to the error classifier
  clsResult,             \* its classification ("none" before the first)
  bulkIn,                \* the last bulk call: entry point, rows, options, the driver's behaviour
  bulkOut,               \* what it returned or raised, and its calls on the connection
  parOps,                \* the bulk calls started by parallelBulkOperations, each at its await
  handlerOut,            \* the last executeTransaction of the handler: arguments and outcome
  pending                \* the coordinator calls suspended at their connection call, oldest first

vars == <<isTransactionActive, transactionStartTime, savepoints, retryCount,
          options, now, lastCall, lastThrew, lastArg, raised, connLog, attempts, sleeps,
          batchResults, batchArgs, pre, tracing, clsError, clsResult, bulkIn, bulkOut,
          parOps, handlerOut, pending>>

txVars == <<isTransactionActive, transactionStartTime, savepoints, retryCount,
            options, now, lastCall, lastThrew, lastArg, raised, connLog, attempts, sleeps,
            batchResults, batchArgs, pre, tracing>>
clsVars == <<clsError, clsResult>>
bulkVars == <<bulkIn, bulkOut>>
parVars == <<parOps>>
hdlVars == <<handlerOut>>
ovlVars == <<pending>>

(* ------------------------------ strings -------------------------------- *)
Lower == {"a","b","c","d","e","f","g","h","i","j","k","l","m",
          "n","o","p","q","r","s","t","u","v","w","x","y","z"}
Upper == {"A","B","C","D","E","F","G","H","I","J","K","L","M",
          "N","O","P","Q","R","S","T","U","V","W","X","Y","Z"}
Digit == {"0","1","2","3","4","5","6","7","8","9"}

DigitChar(d) == <<"0","1","2","3","4","5","6","7","8","9">>[d + 1]

RECURSIVE NumStr(_)
\* String(n) for a non-negative integer: its decimal digits
NumStr(n) == IF n < 10 THEN <<DigitChar(n)>>
             ELSE NumStr(n \div 10) \o <<DigitChar(n % 10)>>

\* Date.now() is EpochMillions * 10^6 + now; its 13 decimal digits
EpochMillions == 1793577
DateNowStr(t) ==
  NumStr(EpochMillions) \o
  <<DigitChar((t \div 100000) % 10), DigitChar((t \div 10000) % 10),
    DigitChar((t \div 1000) % 10), DigitChar((t \div 100) % 10),
    DigitChar((t \div 10) % 10), DigitChar(t % 10)>>

\* `batch_${i}_${Date.now()}`
BatchSavepointName(i, t) ==
  <<"b","a","t","c","h","_">> \o NumStr(i) \o <<"_">> \o DateNowStr(t)

NoLengthLimitName(name) ==
  /\ Len(name) >= 1
  /\ name[1] \in Lower \cup Upper
  /\ \A k \in 2..Len(name) : name[k] \in Lower \cup Upper \cup Digit \cup {"_"}

\* /^[a-zA-Z][a-zA-Z0-9_]*$/.test(name) && name.length <= 30
isValidSavepointName(name) ==
  /\ Len(name) >= 1
  /\ name[1] \in Lower \cup Upper
  /\ \A k \in 2..Len(name) : name[k] \in Lower \cup Upper \cup Digit \cup {"_"}
  /\ Len(name) <= 30

(* ------------------------- errors and outcomes ------------------------- *)
NoError == [thrown |-> FALSE, isError |-> FALSE, message |-> <<>>]
\* new Error(message)
NewError(msg) == [thrown |-> TRUE, isError |-> TRUE, message |-> msg]

\* error instanceof Error ? error.message : String(error)
\* (a thrown value that is no Error carries its String() form in message)
ErrorMessage(e) == e.message

\* String.prototype.includes on a message made of fragments
Includes(msg, code) == \E k \in 1..Len(msg) : msg[k] = code

OkOutcome == [ok |-> TRUE, message |-> <<>>]
FailOutcome(msg) == [ok |-> FALSE, message |-> msg]

\* one call on the connection: the next scripted outcome is consumed and logged
ConnCall(s, stmt, arg) ==
  LET o == Head(s.script) IN
  [s EXCEPT !.log = Append(@, [stmt |-> stmt, arg |-> arg, ok |-> o.ok,
                               message |-> o.message]),
            !.script = Tail(@)]

LastOk(s) == s.log[Len(s.log)].ok
LastMsg(s) == s.log[Len(s.log)].message

Raise(s, msg) == [s EXCEPT !.raised = NewError(msg)]

(* -------------------------- TransactionManager ------------------------- *)
\* the constructor's defaults merged with the caller's options
\* (the plain constructor, createAnalyticsManager, and two callers' choices)
ConstructorOptions ==
  { [isolation |-> "READ_COMMITTED", autoRollbackOnError |-> TRUE, maxRetries |-> 3],
    [isolation |-> "READ_ONLY", autoRollbackOnError |-> FALSE, maxRetries |-> 1],
    [isolation |-> "SERIALIZABLE", autoRollbackOnError |-> TRUE, maxRetries |-> 2],
    [isolation |-> "READ_COMMITTED", autoRollbackOnError |-> FALSE, maxRetries |-> 0] }

KeepsSavepointsCleanup(s) ==
  [s EXCEPT !.active = FALSE, !.startTime = <<>>, !.retryCount = 0]

cleanupTransaction(s) ==
  [s EXCEPT !.active = FALSE, !.startTime = <<>>, !.savepoints = <<>>,
            !.retryCount = 0]

setIsolationLevel(s, level) ==
  IF level \in {"READ_COMMITTED", "SERIALIZABLE", "READ_ONLY"}
  THEN ConnCall(s, "SET TRANSACTION ISOLATION LEVEL", <<>>)
  ELSE s

beginTransaction(s) ==
  IF s.active
  THEN Raise(s, <<"Transação já está ativa. Use commit() ou rollback() primeiro.">>)
  ELSE LET c == IF s.options.isolation # "READ_COMMITTED"
                THEN setIsolationLevel(s, s.options.isolation)
                ELSE s
       IN IF Len(c.log) > Len(s.log) /\ ~LastOk(c)
          THEN Raise(c, <<"Falha ao iniciar transação: ">> \o LastMsg(c))
          ELSE [c EXCEPT !.startTime = <<c.now>>, !.active = TRUE, !.retryCount = 0]

\* this.savepoints.findIndex(sp => sp.name === name), 1-based, 0 when absent
RECURSIVE FindFrom(_, _, _)
FindFrom(sps, name, k) ==
  IF k > Len(sps) THEN 0
  ELSE IF sps[k].name = name THEN k
  ELSE FindFrom(sps, name, k + 1)
findIndex(sps, name) == FindFrom(sps, name, 1)

LateValidationCreateSavepoint(s, name) ==
  LET c == ConnCall(s, "SAVEPOINT", name) IN
  IF ~s.active
  THEN Raise(c, <<"Nenhuma transação ativa para criar savepoint">>)
  ELSE IF ~isValidSavepointName(name)
  THEN Raise(c, <<"Nome do savepoint inválido. Use apenas letras, números e underscore.">>)
  ELSE IF findIndex(s.savepoints, name) # 0
  THEN Raise(c, <<"Savepoint '">> \o name \o <<"' já existe">>)
  ELSE IF LastOk(c)
  THEN [c EXCEPT !.savepoints = Append(@, [name |-> name])]
  ELSE Raise(c, <<"Falha ao criar savepoint '">> \o name \o <<"': ">> \o LastMsg(c))

createSavepoint(s, name) ==
  IF ~s.active
  THEN Raise(s, <<"Nenhuma transação ativa para criar savepoint">>)
  ELSE IF ~isValidSavepointName(name)
  THEN Raise(s, <<"Nome do savepoint inválido. Use apenas letras, números e underscore.">>)
  ELSE IF findIndex(s.savepoints, name) # 0
  THEN Raise(s, <<"Savepoint '">> \o name \o <<"' já existe">>)
  ELSE LET c == ConnCall(s, "SAVEPOINT", name) IN
       IF LastOk(c)
       THEN [c EXCEPT !.savepoints = Append(@, [name |-> name])]
       ELSE Raise(c, <<"Falha ao criar savepoint '">> \o name \o <<"': ">> \o LastMsg(c))

DropsTargetSlice(sps, idx) == SubSeq(sps, 1, idx - 1)

\* this.savepoints.slice(0, savepointIndex + 1), idx being 1-based here
SliceThrough(sps, idx) == SubSeq(sps, 1, idx)

rollbackToSavepoint(s, name) ==
  IF ~s.active
  THEN Raise(s, <<"Nenhuma transação ativa para rollback">>)
  ELSE IF findIndex(s.savepoints, name) = 0
  THEN Raise(s, <<"Savepoint '">> \o name \o <<"' não encontrado">>)
  ELSE LET c == ConnCall(s, "ROLLBACK TO SAVEPOINT", name) IN
       IF LastOk(c)
       THEN [c EXCEPT !.savepoints = SliceThrough(@, findIndex(@, name))]
       ELSE Raise(c, <<"Falha no rollback para savepoint '">> \o name \o <<"': ">>
                       \o LastMsg(c))

SpliceToEnd(sps, idx) == SubSeq(sps, 1, idx - 1)

\* this.savepoints.splice(savepointIndex, 1), idx being 1-based here
Splice1(sps, idx) == SubSeq(sps, 1, idx - 1) \o SubSeq(sps, idx + 1, Len(sps))

releaseSavepoint(s, name) ==
  IF ~s.active
  THEN Raise(s, <<"Nenhuma transação ativa">>)
  ELSE IF findIndex(s.savepoints, name) = 0
  THEN Raise(s, <<"Savepoint '">> \o name \o <<"' não encontrado">>)
  ELSE [s EXCEPT !.savepoints = Splice1(@, findIndex(@, name))]

NoCleanupOnFailedRollback(s) ==
  IF ~s.active
  THEN Raise(s, <<"Nenhuma transação ativa para rollback">>)
  ELSE LET c == ConnCall(s, "rollback", <<>>) IN
       IF LastOk(c)
       THEN cleanupTransaction(c)
       ELSE Raise(c, <<"Falha no rollback: ">> \o LastMsg(c))

rollback(s) ==
  IF ~s.active
  THEN Raise(s, <<"Nenhuma transação ativa para rollback">>)
  ELSE LET c == ConnCall(s, "rollback", <<>>) IN
       IF LastOk(c)
       THEN cleanupTransaction(c)
       ELSE Raise(cleanupTransaction(c), <<"Falha no rollback: ">> \o LastMsg(c))

UnguardedCommit(s) ==
  LET c == ConnCall(s, "commit", <<>>) IN
  IF LastOk(c)
  THEN cleanupTransaction(c)
  ELSE LET r == IF c.options.autoRollbackOnError THEN rollback(c) ELSE c IN
       IF r.raised.thrown
       THEN r
       ELSE Raise(r, <<"Falha no commit: ">> \o LastMsg(c))

AlwaysRollsBackCommit(s) ==
  IF ~s.active
  THEN Raise(s, <<"Nenhuma transação ativa para commit">>)
  ELSE LET c == ConnCall(s, "commit", <<>>) IN
       IF LastOk(c)
       THEN cleanupTransaction(c)
       ELSE LET r == rollback(c) IN
            IF r.raised.thrown
            THEN r
            ELSE Raise(r, <<"Falha no commit: ">> \o LastMsg(c))

commit(s) ==
  IF ~s.active
  THEN Raise(s, <<"Nenhuma transação ativa para commit">>)
  ELSE LET c == ConnCall(s, "commit", <<>>) IN
       IF LastOk(c)
       THEN cleanupTransaction(c)
       ELSE LET r == IF c.options.autoRollbackOnError THEN rollback(c) ELSE c IN
            IF r.raised.thrown
            THEN r   \* the error of this.rollback() leaves the catch block
            ELSE Raise(r, <<"Falha no commit: ">> \o LastMsg(c))

\* the last argument of retryableErrors.some(...)
RetryableErrors == {"ORA-00060", "ORA-08177", "ORA-00054", "ORA-30006"}

\* the callback of some():
\*   error instanceof Error ? error.message : String(error)?.includes(code)
\* whose first branch yields the message itself, truthy when it is not empty
SomeCallback(e, code) ==
  IF e.isError THEN Len(e.message) > 0 ELSE Includes(e.message, code)

isRetryableError(e) ==
  IF ~e.isError THEN FALSE
  ELSE \E code \in RetryableErrors : SomeCallback(e, code)

\* this.options.maxRetries || 3
MaxAttempts(opts) == IF opts.maxRetries = 0 THEN 3 ELSE opts.maxRetries

CountsLastAttempt(attempt, opts) == attempt <= MaxAttempts(opts)

\* attempt < (this.options.maxRetries || 3)
AttemptsRemain(attempt, opts) == attempt < MaxAttempts(opts)

\* what the operation raised, as the value the catch clause receives
Thrown(o) == [thrown |-> TRUE, isError |-> o.isError, message |-> o.message]

\* after the loop: lastError instanceof Error ? throw lastError
\*                                            : throw new Error(String(lastError))
AfterRetryLoop(s) ==
  IF Len(s.attempts) = 0
  THEN Raise(s, <<"undefined">>)
  ELSE LET lastError == Thrown(s.attempts[Len(s.attempts)]) IN
       IF lastError.isError
       THEN [s EXCEPT !.raised = lastError]
       ELSE Raise(s, lastError.message)

RECURSIVE RetryLoop(_, _, _)
\* ops[k] is what the k-th invocation of operation() does
RetryLoop(s, ops, attempt) ==
  IF attempt > MaxAttempts(s.options)
  THEN AfterRetryLoop(s)
  ELSE LET o == ops[attempt]
           s1 == [s EXCEPT !.attempts = Append(@, o)]
       IN IF o.ok
          THEN s1
          ELSE IF ~isRetryableError(Thrown(o))
          THEN [s1 EXCEPT !.raised = Thrown(o)]
          ELSE IF AttemptsRemain(attempt, s.options)
          THEN RetryLoop([s1 EXCEPT !.sleeps = @ + 1, !.retryCount = @ + 1],
                         ops, attempt + 1)
          ELSE RetryLoop(s1, ops, attempt + 1)

executeWithRetry(s, ops) == RetryLoop(s, ops, 1)

\* operation.name || `operation_${i + 1}`, the operations of the model being unnamed
OperationName(i) == <<"operation_">> \o NumStr(i + 1)

AlwaysStopsBatch(stopOnError) == TRUE

\* if (stopOnError) in the catch block of executeBatch
StopsBatch(stopOnError) == stopOnError

\* the catch block of executeBatch for operation i, errorMessage being the cause
BatchCatch(s, i, errorMessage, savepointPerOperation, stopOnError) ==
  LET s1 == [s EXCEPT !.raised = NoError,
                      !.results = Append(@, [index |-> i, name |-> OperationName(i),
                                             success |-> FALSE,
                                             error |-> errorMessage])]
  IN IF ~StopsBatch(stopOnError)
     THEN s1
     ELSE LET r == IF savepointPerOperation /\ Len(s1.savepoints) > 0
                   THEN rollbackToSavepoint(s1, s1.savepoints[Len(s1.savepoints)].name)
                   ELSE s1
          IN IF r.raised.thrown
             THEN r
             ELSE Raise(r, <<"Operação '">> \o OperationName(i) \o <<"' falhou: ">>
                           \o errorMessage)

RECURSIVE BatchLoop(_, _, _, _, _)
\* the for loop of executeBatch over n operations, i being 0-based
BatchLoop(s, n, i, savepointPerOperation, stopOnError) ==
  IF i >= n
  THEN s
  ELSE LET a == IF savepointPerOperation
                THEN createSavepoint(s, BatchSavepointName(i, s.now))
                ELSE s
           b == IF a.raised.thrown THEN a
                ELSE ConnCall(a, "execute", <<"autoCommit: false">>)
           c == IF a.raised.thrown
                THEN BatchCatch(a, i, ErrorMessage(a.raised),
                                savepointPerOperation, stopOnError)
                ELSE IF ~LastOk(b)
                THEN BatchCatch(b, i, LastMsg(b), savepointPerOperation, stopOnError)
                ELSE [b EXCEPT !.results =
                        Append(@, [index |-> i, name |-> OperationName(i),
                                   success |-> TRUE, error |-> <<>>])]
       IN IF c.raised.thrown
          THEN c
          ELSE BatchLoop(c, n, i + 1, savepointPerOperation, stopOnError)

NoImplicitBegin(s, n, savepointPerOperation, stopOnError) ==
  BatchLoop(s, n, 0, savepointPerOperation, stopOnError)

executeBatch(s, n, savepointPerOperation, stopOnError) ==
  LET b == IF ~s.active THEN beginTransaction(s) ELSE s IN
  IF b.raised.thrown
  THEN b
  ELSE BatchLoop(b, n, 0, savepointPerOperation, stopOnError)

(* ------------------------------ the calls ------------------------------ *)
\* a connection call resolves or rejects; the rollback that commit() issues
\* after a failed commit rejects with an error of its own
ConnOutcomes == {OkOutcome, FailOutcome(<<"ORA-03113">>)}
AutoRollbackOutcomes == {OkOutcome, FailOutcome(<<"ORA-00060">>)}

Letters30 == [k \in 1..30 |-> "x"]
SavepointNames ==
  { <<"s","p","1">>, <<"s","p","2">>, Letters30,
    <<"1","b","a","d">>, Letters30 \o <<"y">> }

NoBulkCall ==
  [impl |-> "none", kind |-> "none", rows |-> 0, batchSize |-> 0,
   continueOnError |-> FALSE, autoCommit |-> "undefined", fates |-> <<>>,
   badRows |-> {}, finalCommitOk |-> TRUE, missing |-> {}]
NoBulkOutcome ==
  [returned |-> FALSE, raised |-> NoError, log |-> <<>>, operation |-> "none",
   totalRows |-> 0, successfulRows |-> 0, failedRows |-> 0, batchCount |-> 0,
   errors |-> <<>>]

NoBatchArgs == [n |-> 0, savepointPerOperation |-> FALSE, stopOnError |-> FALSE]

NoHandlerCall ==
  [called |-> FALSE, n |-> 0, savepointPerOperation |-> FALSE, stopOnError |-> FALSE,
   caught |-> NoError, raised |-> NoError, log |-> <<>>, active |-> FALSE]

\* the coordinator as the record the methods work on, at the start of a call
Cur(script) ==
  [active |-> isTransactionActive, startTime |-> transactionStartTime,
   savepoints |-> savepoints, retryCount |-> retryCount, options |-> options,
   now |-> now, raised |-> NoError, log |-> <<>>, script |-> script,
   attempts |-> <<>>, sleeps |-> 0, results |-> <<>>]

\* how the last call ended a transaction: by a commit or by a rollback that
\* found it active and returned ("commit", "rollback") or raised after the
\* cleanup ("rollback raised"); "no" when it ended none
Ended ==
  IF lastCall = "commit" /\ pre.active /\ ~raised.thrown THEN "commit"
  ELSE IF lastCall = "rollback" /\ pre.active
  THEN (IF raised.thrown THEN "rollback raised" ELSE "rollback")
  ELSE "no"

\* what a call that ends leaves behind: the coordinator's fields and the record
\* of the call
Completes(r, call, arg) ==
  /\ isTransactionActive' = r.active
  /\ transactionStartTime' = r.startTime
  /\ savepoints' = r.savepoints
  /\ retryCount' = r.retryCount
  /\ lastCall' = call
  /\ lastThrew' = r.raised.thrown
  /\ IF tracing
     THEN /\ raised' = r.raised
          /\ connLog' = r.log
          /\ attempts' = r.attempts
          /\ sleeps' = r.sleeps
          /\ lastArg' = IF call = "executeBatch" THEN <<>> ELSE arg
          /\ batchResults' = r.results
          /\ pre' = [active |-> isTransactionActive, savepoints |-> savepoints,
                     retryCount |-> retryCount, ended |-> Ended]
     ELSE UNCHANGED <<raised, connLog, attempts, sleeps, lastArg, batchResults, pre>>
  /\ batchArgs' = IF tracing /\ call = "executeBatch" THEN arg ELSE NoBatchArgs
  /\ UNCHANGED <<options, now, tracing, clsVars, bulkVars, parVars, hdlVars>>

\* a call that runs from start to end with no other call in between
Finish(r, call, arg) == Completes(r, call, arg) /\ UNCHANGED ovlVars

\* a coordinator right after new TransactionManager(connection, opts)
Constructed(opts) ==
  /\ isTransactionActive = FALSE
  /\ transactionStartTime = <<>>
  /\ savepoints = <<>>
  /\ retryCount = 0
  /\ options = opts
  /\ now = 0
  /\ lastCall = "new"
  /\ lastThrew = FALSE
  /\ lastArg = <<>>
  /\ raised = NoError
  /\ connLog = <<>>
  /\ attempts = <<>>
  /\ sleeps = 0
  /\ batchResults = <<>>
  /\ batchArgs = NoBatchArgs
  /\ pre = [active |-> FALSE, savepoints |-> <<>>, retryCount |-> 0, ended |-> "no"]
  /\ handlerOut = NoHandlerCall
  /\ pending = <<>>

DefaultOptions ==
  [isolation |-> "READ_COMMITTED", autoRollbackOnError |-> TRUE, maxRetries |-> 3]

Init ==
  /\ \E opts \in ConstructorOptions : Constructed(opts)
  /\ tracing = FALSE
  /\ clsError = NoError
  /\ clsResult = "none"
  /\ bulkIn = NoBulkCall
  /\ bulkOut = NoBulkOutcome
  /\ parOps = <<>>

Tick ==
  /\ now < MaxClock
  /\ now' = now + 1
  /\ UNCHANGED <<isTransactionActive, transactionStartTime, savepoints, retryCount,
                 options, lastCall, lastThrew, lastArg, raised, connLog, attempts, sleeps,
                 batchResults, batchArgs, pre, tracing, clsVars, bulkVars,
                 parVars, hdlVars, ovlVars>>

BeginTransaction ==
  \E o \in ConnOutcomes : Finish(beginTransaction(Cur(<<o>>)), "beginTransaction", <<>>)

CreateSavepoint ==
  /\ Len(savepoints) < MaxSavepoints
  /\ \E name \in SavepointNames, o \in ConnOutcomes :
       Finish(createSavepoint(Cur(<<o>>), name), "createSavepoint", name)

RollbackToSavepoint ==
  \E name \in SavepointNames, o \in ConnOutcomes :
    Finish(rollbackToSavepoint(Cur(<<o>>), name), "rollbackToSavepoint", name)

ReleaseSavepoint ==
  \E name \in SavepointNames :
    Finish(releaseSavepoint(Cur(<<>>), name), "releaseSavepoint", name)

Commit ==
  \E o1 \in ConnOutcomes, o2 \in AutoRollbackOutcomes :
    Finish(commit(Cur(<<o1, o2>>)), "commit", <<>>)

Rollback ==
  \E o \in ConnOutcomes : Finish(rollback(Cur(<<o>>)), "rollback", <<>>)

\* what one invocation of the operation passed to executeWithRetry may do
OperationMessages == {<<"ORA-00060">>, <<"ORA-00942">>}
OperationOutcomes ==
  {[ok |-> TRUE, isError |-> FALSE, message |-> <<>>]}
    \cup {[ok |-> FALSE, isError |-> TRUE, message |-> m] : m \in OperationMessages}
    \cup {[ok |-> FALSE, isError |-> FALSE, message |-> <<"ORA-00060">>]}

ExecuteWithRetry ==
  /\ retryCount + MaxAttempts(options) - 1 <= MaxRetryCount
  /\ \E ops \in [1..MaxAttempts(options) -> OperationOutcomes] :
       \* nothing is invoked after an invocation that returns
       /\ \A k \in 1..(MaxAttempts(options) - 1) : ops[k].ok => ops[k + 1].ok
       /\ Finish(executeWithRetry(Cur(<<>>), ops), "executeWithRetry", <<>>)

BatchOutcomes == {OkOutcome, FailOutcome(<<"ORA-03113">>)}

\* the most calls one executeBatch makes on the connection
BatchCalls(n, savepointPerOperation, stopOnError) ==
  (IF ~isTransactionActive /\ options.isolation # "READ_COMMITTED" THEN 1 ELSE 0)
    + n * (IF savepointPerOperation THEN 2 ELSE 1)
    + (IF savepointPerOperation /\ stopOnError THEN 1 ELSE 0)

ExecuteBatch ==
  \E n \in 0..MaxOps, savepointPerOperation \in BOOLEAN, stopOnError \in BOOLEAN :
    /\ savepointPerOperation => Len(savepoints) + n <= MaxSavepoints
    /\ \E script \in [1..BatchCalls(n, savepointPerOperation, stopOnError)
                          -> BatchOutcomes] :
         Finish(executeBatch(Cur(script), n, savepointPerOperation, stopOnError),
                "executeBatch",
                [n |-> n, savepointPerOperation |-> savepointPerOperation,
                 stopOnError |-> stopOnError])

Next ==
  \/ Tick
  \/ ExecuteWithRetry
  \/ ExecuteBatch
  \/ BeginTransaction
  \/ CreateSavepoint
  \/ RollbackToSavepoint
  \/ ReleaseSavepoint
  \/ Commit
  \/ Rollback

Spec == Init /\ [][Next]_vars

\* the calls of one transaction at a time, with their details recorded
InitTx ==
  /\ \E opts \in ConstructorOptions : Constructed(opts)
  /\ tracing = TRUE
  /\ clsError = NoError
  /\ clsResult = "none"
  /\ bulkIn = NoBulkCall
  /\ bulkOut = NoBulkOutcome
  /\ parOps = <<>>

NextTx ==
  \/ Tick
  \/ ExecuteWithRetry
  \/ BeginTransaction
  \/ CreateSavepoint
  \/ RollbackToSavepoint
  \/ ReleaseSavepoint
  \/ Commit
  \/ Rollback

SpecTx == InitTx /\ [][NextTx]_vars

\* statement batches inside transactions, with their details recorded
NextBatch ==
  \/ Tick
  \/ ExecuteBatch
  \/ BeginTransaction
  \/ CreateSavepoint

\* the isolation level is the one option executeBatch depends on
BatchOptions == {opts \in ConstructorOptions : opts.autoRollbackOnError}

InitBatch ==
  /\ \E opts \in BatchOptions : Constructed(opts)
  /\ tracing = TRUE
  /\ clsError = NoError
  /\ clsResult = "none"
  /\ bulkIn = NoBulkCall
  /\ bulkOut = NoBulkOutcome
  /\ parOps = <<>>

SpecBatch == InitBatch /\ [][NextBatch]_vars

(* --------------------------- error classifier -------------------------- *)
MaxFragments == 2

\* the classification executeWithRetry acts on
classify(e) == IF isRetryableError(e) THEN "RETRYABLE" ELSE "FATAL"

MessageFragments ==
  {"ORA-00060", "ORA-08177", "ORA-00054", "ORA-30006",
   "ORA-00942", "ORA-00001", "ORA-03113", ": text"}
Messages == UNION {[1..n -> MessageFragments] : n \in 0..MaxFragments}
\* Error objects and thrown values that are no Error (message: their String())
RaisedValues == [thrown : {TRUE}, isError : BOOLEAN, message : Messages]

InitClassify ==
  /\ Constructed(DefaultOptions)
  /\ tracing = FALSE
  /\ clsError \in RaisedValues
  /\ clsResult = "none"
  /\ bulkIn = NoBulkCall
  /\ bulkOut = NoBulkOutcome
  /\ parOps = <<>>

Classify ==
  /\ clsResult = "none"
  /\ clsResult' = classify(clsError)
  /\ UNCHANGED <<txVars, bulkVars, parVars, hdlVars, ovlVars, clsError>>

NextClassify == Classify

SpecClassify == InitClassify /\ [][NextClassify]_vars

(* ---------------------------- BulkOperations --------------------------- *)
MaxRows == 3
MaxBatchSize == 2

Min(a, b) == IF a < b THEN a ELSE b

\* the failed offsets of the slice of len rows starting at row i, ascending
RECURSIVE BadOffsets(_, _, _, _)
BadOffsets(inp, i, len, k) ==
  IF k >= len THEN <<>>
  ELSE (IF (i + k) \in inp.badRows THEN <<k>> ELSE <<>>)
         \o BadOffsets(inp, i, len, k + 1)

RowError == <<"ORA-00001">>
SliceError == <<"ORA-03113">>
CommitError == <<"ORA-03114">>

\* connection.executeMany on slice number b (1-based) with batchErrors = continueOnError:
\* it raises when the whole slice fails, and when a row fails and batchErrors is off
ExecuteMany(inp, b, i, len) ==
  LET offs == BadOffsets(inp, i, len, 0) IN
  IF inp.fates[b] = "throw"
  THEN [ok |-> FALSE, message |-> SliceError, batchErrors |-> <<>>]
  ELSE IF offs # <<>> /\ ~inp.continueOnError
  THEN [ok |-> FALSE, message |-> RowError, batchErrors |-> <<>>]
  ELSE [ok |-> TRUE, message |-> <<>>, batchErrors |-> offs]

\* errors.push of one entry per driver batch error
RowEntries(b, i, offs) ==
  [k \in 1..Len(offs) |->
     [batchIndex |-> b - 1, rowIndex |-> i + offs[k], error |-> RowError]]

\* one call on this.connection: executeMany / execute with the rows it sends
\* (rows from .. from + len - 1), commit with none
LogCall(st, stmt, from, len, ok) ==
  [st EXCEPT !.log = Append(@, [stmt |-> stmt, sql |-> "", from |-> from,
                                len |-> len, binds |-> <<>>, ok |-> ok])]

\* the statement text an entry point builds, by its leading keyword: the node's
\* INSERT INTO / UPDATE .. SET .. WHERE / DELETE FROM .. WHERE, and the
\* INSERT INTO that each of the four entry points of lib/core builds
Sql(inp) == IF inp.impl = "core" THEN "INSERT" ELSE inp.kind

\* batch.map(row => columns.map(col => row[col])): what is bound for the column
\* that the rows in inp.missing lack
Binds(inp, i, len) ==
  [k \in 1..len |-> IF (i + k - 1) \in inp.missing THEN "undefined" ELSE "value"]

\* connection.executeMany(sql, batchData, ...) on the slice that starts at row i
LogExecuteMany(st, inp, i, len, ok) ==
  [st EXCEPT !.log = Append(@, [stmt |-> "executeMany", sql |-> Sql(inp), from |-> i,
                                len |-> len, binds |-> Binds(inp, i, len),
                                ok |-> ok])]

PaddedSliceLen(inp, i) == inp.batchSize

\* data.slice(i, i + batchSize).length
SliceLen(inp, i) == Min(inp.batchSize, inp.rows - i)

CommitsEverySlice(inp) == TRUE

\* a slice whose statement succeeded is committed at once: if (autoCommit), where
\* autoCommit is options.autoCommit with the default true
CommitsSlice(inp) == inp.autoCommit # "false"

NeverRethrows(continueOnError) == FALSE

\* the catch clause raises to the caller: if (!continueOnError) throw ...
Rethrows(continueOnError) == ~continueOnError

\* OracleDatabase.node.ts: the try/catch of one slice (b 1-based, i its first row);
\* bulkInsert, bulkUpdate and bulkDelete have the same loop body
NodeSlice(st, inp, b, i) ==
  LET len == SliceLen(inp, i)
      res == ExecuteMany(inp, b, i, len)
      st1 == LogExecuteMany([st EXCEPT !.batchCount = @ + 1], inp, i, len, res.ok)
      counted ==
        IF Len(res.batchErrors) > 0
        THEN [st1 EXCEPT !.errors = @ \o RowEntries(b, i, res.batchErrors),
                         !.failedRows = @ + Len(res.batchErrors)]
        ELSE [st1 EXCEPT !.successfulRows = @ + len]
      autoCommit == CommitsSlice(inp)
      commitOk == inp.fates[b] # "commitThrow"
      committed == IF autoCommit THEN LogCall(counted, "commit", 0, 0, commitOk)
                   ELSE counted
      \* the state and the error the catch clause sees, if any
      caught == IF ~res.ok THEN st1 ELSE committed
      cause == IF ~res.ok THEN res.message ELSE CommitError
  IN IF res.ok /\ (~autoCommit \/ commitOk)
     THEN committed
     ELSE IF ~Rethrows(inp.continueOnError)
     THEN [caught EXCEPT !.errors = Append(@, [batchIndex |-> b - 1, rowIndex |-> i,
                                               error |-> cause]),
                         !.failedRows = @ + len]
     ELSE [caught EXCEPT !.raised =
             NewError(<<"Erro no lote ">> \o NumStr(b) \o <<": ">> \o cause)]

RECURSIVE NodeLoop(_, _, _, _)
NodeLoop(st, inp, b, i) ==
  IF i >= inp.rows THEN st
  ELSE LET st1 == NodeSlice(st, inp, b, i) IN
       IF st1.raised.thrown THEN st1
       ELSE NodeLoop(st1, inp, b + 1, i + inp.batchSize)

EmptyMessage(kind) ==
  IF kind = "INSERT" THEN <<"Dados para inserção não podem estar vazios">>
  ELSE IF kind = "UPDATE" THEN <<"Dados para atualização não podem estar vazios">>
  ELSE <<"Dados para exclusão não podem estar vazios">>

\* validateDataStructure(data, Object.keys(data[0])): every row has every column
\* of the first row (col in row)
validateDataStructure(inp) == inp.missing = {}

\* `Linha ${i}: coluna '${col}' não encontrada` for the first such row
MissingColumnMessage(inp) ==
  <<"Linha ">>
    \o NumStr(CHOOSE r \in inp.missing : \A q \in inp.missing : r <= q)
    \o <<": coluna 'c' não encontrada">>

\* OracleDatabase.node.ts bulkInsert / bulkUpdate / bulkDelete, the column
\* arguments being valid
NodeBulk(inp) ==
  LET st0 == [NoBulkOutcome EXCEPT !.operation = inp.kind, !.totalRows = inp.rows] IN
  IF inp.rows = 0
  THEN [st0 EXCEPT !.raised = NewError(EmptyMessage(inp.kind))]
  ELSE IF inp.kind = "INSERT" /\ ~validateDataStructure(inp)
  THEN [st0 EXCEPT !.raised = NewError(MissingColumnMessage(inp))]
  ELSE LET st1 == NodeLoop(st0, inp, 1, 0) IN
       IF st1.raised.thrown THEN st1
       ELSE IF inp.autoCommit = "false" /\ st1.successfulRows > 0
       THEN (IF inp.finalCommitOk
             THEN [LogCall(st1, "commit", 0, 0, TRUE) EXCEPT !.returned = TRUE]
             ELSE [LogCall(st1, "commit", 0, 0, FALSE)
                     EXCEPT !.raised = NewError(CommitError)])
       ELSE [st1 EXCEPT !.returned = TRUE]

\* errors.push of one entry per row of a slice that raised
WholeSliceEntries(b, i, len, cause) ==
  [k \in 1..len |-> [batchIndex |-> b - 1, rowIndex |-> i + k - 1, error |-> cause]]

\* lib/core/operations (part_003): the try/catch of one slice; the four entry
\* points have the same loop body
CoreSlice(st, inp, b, i) ==
  LET len == SliceLen(inp, i)
      res == ExecuteMany(inp, b, i, len)
      st1 == LogExecuteMany([st EXCEPT !.batchCount = @ + 1], inp, i, len, res.ok)
      counted ==
        IF Len(res.batchErrors) > 0
        THEN [st1 EXCEPT !.errors = @ \o RowEntries(b, i, res.batchErrors),
                         !.failedRows = @ + Len(res.batchErrors),
                         !.successfulRows = @ + len - Len(res.batchErrors)]
        ELSE [st1 EXCEPT !.successfulRows = @ + len]
      autoCommit == CommitsSlice(inp)   \* options.autoCommit ?? true
      commitOk == inp.fates[b] # "commitThrow"
      committed == IF autoCommit THEN LogCall(counted, "commit", 0, 0, commitOk)
                   ELSE counted
      caught == IF ~res.ok THEN st1 ELSE committed
      cause == IF ~res.ok THEN res.message ELSE CommitError
  IN IF res.ok /\ (~autoCommit \/ commitOk)
     THEN committed
     ELSE LET failed == [caught EXCEPT !.failedRows = @ + len] IN
          IF Rethrows(inp.continueOnError)
          THEN [failed EXCEPT !.raised = NewError(cause)]
          ELSE [failed EXCEPT !.errors = @ \o WholeSliceEntries(b, i, len, cause)]

RECURSIVE CoreLoop(_, _, _, _)
CoreLoop(st, inp, b, i) ==
  IF i >= inp.rows THEN st
  ELSE LET st1 == CoreSlice(st, inp, b, i) IN
       IF st1.raised.thrown THEN st1
       ELSE CoreLoop(st1, inp, b + 1, i + inp.batchSize)

\* lib/core/operations bulkInsert / bulkUpdate / bulkDelete / bulkUpsert
CoreBulk(inp) ==
  LET st0 == [NoBulkOutcome EXCEPT !.operation = "INSERT", !.totalRows = inp.rows]
      st1 == CoreLoop(st0, inp, 1, 0)
  IN IF st1.raised.thrown THEN st1
     \* if (!options.autoCommit && successful > 0)
     ELSE IF inp.autoCommit # "true" /\ st1.successfulRows > 0
     THEN (IF inp.finalCommitOk
           THEN [LogCall(st1, "commit", 0, 0, TRUE) EXCEPT !.returned = TRUE]
           ELSE [LogCall(st1, "commit", 0, 0, FALSE)
                   EXCEPT !.raised = NewError(CommitError)])
     ELSE [st1 EXCEPT !.returned = TRUE]

\* OracleDatabase.node.ts bulkUpsert, keyColumns being given: one MERGE statement
\* for all rows; Object.keys(data[0]) raises a TypeError on an empty array
NodeUpsert(inp) ==
  LET st0 == [NoBulkOutcome EXCEPT !.operation = "UPSERT", !.totalRows = inp.rows] IN
  IF inp.rows = 0
  THEN [st0 EXCEPT !.raised =
          NewError(<<"Cannot convert undefined or null to object">>)]
  ELSE LET ok == inp.fates[1] = "ok"
           st1 == [st0 EXCEPT !.log =
                     Append(@, [stmt |-> "execute", sql |-> "MERGE", from |-> 0,
                                len |-> inp.rows, binds |-> Binds(inp, 0, inp.rows),
                                ok |-> ok])]
       IN IF ok
          THEN [st1 EXCEPT !.returned = TRUE, !.successfulRows = inp.rows,
                           !.batchCount = 1]
          ELSE [st1 EXCEPT !.raised =
                  NewError(<<"Erro no bulk upsert: ">> \o SliceError)]

Bulk(inp) ==
  IF inp.impl = "core" THEN CoreBulk(inp)
  ELSE IF inp.kind = "UPSERT" THEN NodeUpsert(inp)
  ELSE NodeBulk(inp)

\* Math.ceil(rows / batchSize)
Slices(rows, batchSize) == (rows + batchSize - 1) \div batchSize

BulkInputs(kind) ==
  UNION { [impl : {"node", "core"}, kind : {kind}, rows : {n}, batchSize : {bs},
           continueOnError : BOOLEAN, autoCommit : {"true", "false", "undefined"},
           fates : [1..Slices(n, bs) -> {"ok", "throw", "commitThrow"}],
           badRows : SUBSET (0..(n - 1)), finalCommitOk : BOOLEAN, missing : {{}}]
          : n \in 0..MaxRows, bs \in 1..MaxBatchSize }

\* bulk inserts whose rows after the first may lack a column of the first row,
\* the driver accepting every statement
ColumnInputs ==
  UNION { [impl : {"node", "core"}, kind : {"INSERT"}, rows : {n}, batchSize : {bs},
           continueOnError : BOOLEAN, autoCommit : {"true", "false", "undefined"},
           fates : {[b \in 1..Slices(n, bs) |-> "ok"]},
           badRows : {{}}, finalCommitOk : {TRUE},
           missing : (SUBSET (1..(n - 1))) \ {{}}]
          : n \in 2..MaxRows, bs \in 1..MaxBatchSize }

\* one bulk call per behaviour, its arguments and the driver's behaviour drawn here
InitBulk ==
  /\ Constructed(DefaultOptions)
  /\ tracing = FALSE
  /\ clsError = NoError
  /\ clsResult = "none"
  /\ bulkIn \in BulkInputs("INSERT") \cup BulkInputs("UPDATE")
                  \cup BulkInputs("DELETE") \cup BulkInputs("UPSERT")
                  \cup ColumnInputs
  /\ bulkOut = NoBulkOutcome
  /\ parOps = <<>>

BulkInsert ==
  /\ bulkIn.kind = "INSERT" /\ bulkOut = NoBulkOutcome
  /\ bulkOut' = Bulk(bulkIn)
  /\ UNCHANGED <<txVars, clsVars, parVars, hdlVars, ovlVars, bulkIn>>

BulkUpdate ==
  /\ bulkIn.kind = "UPDATE" /\ bulkOut = NoBulkOutcome
  /\ bulkOut' = Bulk(bulkIn)
  /\ UNCHANGED <<txVars, clsVars, parVars, hdlVars, ovlVars, bulkIn>>

BulkDelete ==
  /\ bulkIn.kind = "DELETE" /\ bulkOut = NoBulkOutcome
  /\ bulkOut' = Bulk(bulkIn)
  /\ UNCHANGED <<txVars, clsVars, parVars, hdlVars, ovlVars, bulkIn>>

BulkUpsert ==
  /\ bulkIn.kind = "UPSERT" /\ bulkOut = NoBulkOutcome
  /\ bulkOut' = Bulk(bulkIn)
  /\ UNCHANGED <<txVars, clsVars, parVars, hdlVars, ovlVars, bulkIn>>

NextBulk == BulkInsert \/ BulkUpdate \/ BulkDelete \/ BulkUpsert

SpecBulk == InitBulk /\ [][NextBulk]_vars

(* -------------------- calls that overlap at an await ------------------- *)
\* createSavepoint up to its await: the three checks made before the statement
SavepointChecks(s, name) ==
  IF ~s.active
  THEN Raise(s, <<"Nenhuma transação ativa para criar savepoint">>)
  ELSE IF ~isValidSavepointName(name)
  THEN Raise(s, <<"Nome do savepoint inválido. Use apenas letras, números e underscore.">>)
  ELSE IF findIndex(s.savepoints, name) # 0
  THEN Raise(s, <<"Savepoint '">> \o name \o <<"' já existe">>)
  ELSE s

\* createSavepoint from its await on: the statement settles and the savepoint
\* is pushed, on the coordinator as it is by then
SavepointSettles(s, name) ==
  LET c == ConnCall(s, "SAVEPOINT", name) IN
  IF LastOk(c)
  THEN [c EXCEPT !.savepoints = Append(@, [name |-> name])]
  ELSE Raise(c, <<"Falha ao criar savepoint '">> \o name \o <<"': ">> \o LastMsg(c))

\* commit() from its await on; the rollback of its catch clause runs through
CommitSettlesOn(s) ==
  LET c == ConnCall(s, "commit", <<>>) IN
  IF LastOk(c)
  THEN cleanupTransaction(c)
  ELSE LET r == IF c.options.autoRollbackOnError THEN rollback(c) ELSE c IN
       IF r.raised.thrown
       THEN r
       ELSE Raise(r, <<"Falha no commit: ">> \o LastMsg(c))

\* rollback() from its await on
RollbackSettlesOn(s) ==
  LET c == ConnCall(s, "rollback", <<>>) IN
  IF LastOk(c)
  THEN cleanupTransaction(c)
  ELSE Raise(cleanupTransaction(c), <<"Falha no rollback: ">> \o LastMsg(c))

Suspended(call, name) == [call |-> call, name |-> name]

\* a caller starts createSavepoint while other calls may be suspended: it raises
\* at a check, or issues its statement and waits
CreateSavepointStarts ==
  /\ Len(pending) < MaxPending
  /\ Len(savepoints) + Len(pending) < MaxSavepoints
  /\ \E name \in SavepointNames :
       LET r == SavepointChecks(Cur(<<>>), name) IN
       IF r.raised.thrown
       THEN Finish(r, "createSavepoint", name)
       ELSE /\ pending' = Append(pending, Suspended("createSavepoint", name))
            /\ UNCHANGED <<txVars, clsVars, bulkVars, parVars, hdlVars>>

\* a caller starts commit(): it raises on an inactive coordinator, or issues the
\* commit and waits
CommitStarts ==
  /\ Len(pending) < MaxPending
  /\ IF ~isTransactionActive
     THEN Finish(commit(Cur(<<>>)), "commit", <<>>)
     ELSE /\ pending' = Append(pending, Suspended("commit", <<>>))
          /\ UNCHANGED <<txVars, clsVars, bulkVars, parVars, hdlVars>>

\* a caller starts rollback()
RollbackStarts ==
  /\ Len(pending) < MaxPending
  /\ IF ~isTransactionActive
     THEN Finish(rollback(Cur(<<>>)), "rollback", <<>>)
     ELSE /\ pending' = Append(pending, Suspended("rollback", <<>>))
          /\ UNCHANGED <<txVars, clsVars, bulkVars, parVars, hdlVars>>

\* the connection settles its oldest call and the suspended caller runs on to
\* its end
OldestResumes ==
  /\ pending # <<>>
  /\ pending' = Tail(pending)
  /\ LET p == Head(pending) IN
     \E o1 \in ConnOutcomes, o2 \in AutoRollbackOutcomes :
       Completes(IF p.call = "createSavepoint"
                 THEN SavepointSettles(Cur(<<o1>>), p.name)
                 ELSE IF p.call = "commit" THEN CommitSettlesOn(Cur(<<o1, o2>>))
                 ELSE RollbackSettlesOn(Cur(<<o1>>)),
                 p.call, p.name)

InitOverlap ==
  /\ \E opts \in ConstructorOptions : Constructed(opts)
  /\ tracing = FALSE
  /\ clsError = NoError
  /\ clsResult = "none"
  /\ bulkIn = NoBulkCall
  /\ bulkOut = NoBulkOutcome
  /\ parOps = <<>>

NextOverlap ==
  \/ BeginTransaction
  \/ CreateSavepointStarts
  \/ CommitStarts
  \/ RollbackStarts
  \/ OldestResumes

SpecOverlap == InitOverlap /\ [][NextOverlap]_vars

(* ------------------- the handler's executeTransaction ------------------ *)
\* TransactionManagerFactory.createBatchManager
BatchManagerOptions ==
  [isolation |-> "READ_COMMITTED", autoRollbackOnError |-> TRUE, maxRetries |-> 5]

\* new TransactionManager(connection, opts): the coordinator local to one call
NewManager(opts, script) ==
  [active |-> FALSE, startTime |-> <<>>, savepoints |-> <<>>, retryCount |-> 0,
   options |-> opts, now |-> now, raised |-> NoError, log |-> <<>>,
   script |-> script, attempts |-> <<>>, sleeps |-> 0, results |-> <<>>]

\* the callback of executeTransaction for n statements: m is the coordinator at
\* the end, its raised field what reaches the caller, caught what the catch
\* clause received
executeTransaction(s, n, savepointPerOperation, stopOnError) ==
  LET b == beginTransaction(s) IN
  IF b.raised.thrown
  THEN [m |-> b, caught |-> NoError]
  ELSE LET e == executeBatch(b, n, savepointPerOperation, stopOnError)
           c == IF e.raised.thrown THEN e ELSE commit(e)
       IN IF ~c.raised.thrown
          THEN [m |-> c, caught |-> NoError]
          ELSE LET r == rollback([c EXCEPT !.raised = NoError]) IN
               [m |-> IF r.raised.thrown THEN r ELSE [r EXCEPT !.raised = c.raised],
                caught |-> c.raised]

\* the most calls one executeTransaction makes on the connection: the batch,
\* the commit, the rollback inside commit() and the rollback of the catch clause
HandlerCalls(n, savepointPerOperation, stopOnError) ==
  n * (IF savepointPerOperation THEN 2 ELSE 1)
    + (IF savepointPerOperation /\ stopOnError THEN 1 ELSE 0) + 3

InitHandler ==
  /\ Constructed(BatchManagerOptions)
  /\ tracing = FALSE
  /\ clsError = NoError
  /\ clsResult = "none"
  /\ bulkIn = NoBulkCall
  /\ bulkOut = NoBulkOutcome
  /\ parOps = <<>>

\* one run of the node's transaction block: the statement parameter splits
\* into n statements, the two switches are node parameters; every run has a
\* coordinator of its own, so one run per behaviour is followed
ExecuteTransaction ==
  /\ ~handlerOut.called
  /\ \E n \in 0..MaxOps, savepointPerOperation \in BOOLEAN, stopOnError \in BOOLEAN :
    \E script \in [1..HandlerCalls(n, savepointPerOperation, stopOnError)
                     -> BatchOutcomes] :
      \E r \in {executeTransaction(NewManager(BatchManagerOptions, script), n,
                                    savepointPerOperation, stopOnError)} :
         /\ handlerOut' = [called |-> TRUE, n |-> n,
                           savepointPerOperation |-> savepointPerOperation,
                           stopOnError |-> stopOnError,
                           caught |-> r.caught, raised |-> r.m.raised,
                           log |-> r.m.log, active |-> r.m.active]
         /\ UNCHANGED <<txVars, clsVars, bulkVars, parVars, ovlVars>>

NextHandler == Tick \/ ExecuteTransaction

SpecHandler == InitHandler /\ [][NextHandler]_vars

(* ----------------------- parallelBulkOperations ------------------------ *)
MaxParallel == 2
MaxParRows == 2

\* what parallelBulkOperations is called with: per operation its number of rows
\* and continueOnError; batchSize is 1 and autoCommit is left at its default
ParallelInputs ==
  UNION {[1..n -> [rows : 1..MaxParRows, continueOnError : BOOLEAN, batchSize : {1}]]
         : n \in 1..MaxParallel}

\* what one bulk call is given when the caller chooses options.batchSize: any
\* integer passes, neither the destructuring default nor ?? replaces 0 or -1
LoopInputs ==
  [rows : 1..MaxRows, continueOnError : BOOLEAN, batchSize : -1..MaxBatchSize]

\* the loop index after i += batchSize; with a negative batchSize every index
\* below zero takes an empty slice and passes the loop test, so they are kept
\* as the one index -1
NextIndex(op) ==
  IF op.i + op.batchSize < -1 THEN -1 ELSE op.i + op.batchSize

\* a bulk call that has not started yet
NotStarted(op) ==
  [rows |-> op.rows, continueOnError |-> op.continueOnError,
   batchSize |-> op.batchSize, i |-> 0, pc |-> "start"]

\* the bulk call k runs until its next await: at the top of the loop with index i
\* it calls connection.executeMany, past the last row it returns
RunLoop(op, i) ==
  IF i < op.rows
  THEN [op EXCEPT !.i = i, !.pc = "executeMany"]
  ELSE [op EXCEPT !.i = i, !.pc = "returned"]

InitParallel ==
  /\ Constructed(DefaultOptions)
  /\ tracing = FALSE
  /\ clsError = NoError
  /\ clsResult = "none"
  /\ bulkIn = NoBulkCall
  /\ bulkOut = NoBulkOutcome
  /\ \E ops \in ParallelInputs : parOps = [k \in DOMAIN ops |-> NotStarted(ops[k])]

\* operations.map(async op => this.bulkInsert(...)): every callback runs at once
\* up to its first await, which is the executeMany of its first slice
ParallelBulkOperations ==
  /\ \A k \in DOMAIN parOps : parOps[k].pc = "start"
  /\ parOps' = [k \in DOMAIN parOps |-> RunLoop(parOps[k], 0)]
  /\ UNCHANGED <<txVars, clsVars, bulkVars, hdlVars, ovlVars>>

\* the driver settles the executeMany that call k awaits; the call goes on to
\* its commit, or through its catch clause
ExecuteManySettles ==
  \E k \in DOMAIN parOps, ok \in BOOLEAN :
    /\ parOps[k].pc = "executeMany"
    /\ parOps' = [parOps EXCEPT ![k] =
         IF ok THEN [@ EXCEPT !.pc = "commit"]
         ELSE IF Rethrows(@.continueOnError) THEN [@ EXCEPT !.pc = "raised"]
         ELSE RunLoop(@, NextIndex(@))]
    /\ UNCHANGED <<txVars, clsVars, bulkVars, hdlVars, ovlVars>>

\* the driver settles the commit that call k awaits
CommitSettles ==
  \E k \in DOMAIN parOps, ok \in BOOLEAN :
    /\ parOps[k].pc = "commit"
    /\ parOps' = [parOps EXCEPT ![k] =
         IF ok \/ ~Rethrows(@.continueOnError) THEN RunLoop(@, NextIndex(@))
         ELSE [@ EXCEPT !.pc = "raised"]]
    /\ UNCHANGED <<txVars, clsVars, bulkVars, hdlVars, ovlVars>>

NextParallel == ParallelBulkOperations \/ ExecuteManySettles \/ CommitSettles

SpecParallel == InitParallel /\ [][NextParallel]_vars

\* one bulk call on its own, followed from await to await
InitLoop ==
  /\ Constructed(DefaultOptions)
  /\ tracing = FALSE
  /\ clsError = NoError
  /\ clsResult = "none"
  /\ bulkIn = NoBulkCall
  /\ bulkOut = NoBulkOutcome
  /\ \E op \in LoopInputs : parOps = <<NotStarted(op)>>

\* every call on the connection returns: an awaited executeMany or commit is
\* settled in the end, and the continuation of the call then runs
SpecLoop == InitLoop /\ [][NextParallel]_vars /\ WF_vars(NextParallel)

(* ------------------------------ properties ----------------------------- *)
Sp1 == <<"s","p","1">>
Sp2 == <<"s","p","2">>
Names(sps) == [k \in 1..Len(sps) |-> sps[k].name]

\* C1: whenever the coordinator is not active, its savepoint sequence is empty
\* and startedAt is absent, after any sequence of calls and connection failures.
C1_InactiveIsClean ==
  ~isTransactionActive => (savepoints = <<>> /\ transactionStartTime = <<>>)

\* a commit has returned: it found a transaction active, with whatever savepoints
\* it held, and ended it
C1_Witness ==
  /\ lastCall = "commit" /\ ~lastThrew /\ ~isTransactionActive
  /\ savepoints = <<>> /\ transactionStartTime = <<>>

\* ^[A-Za-z][A-Za-z0-9_]{0,29}$
MatchesNamePattern(name) ==
  /\ Len(name) \in 1..30
  /\ name[1] \in Lower \cup Upper
  /\ \A k \in 2..Len(name) : name[k] \in Lower \cup Upper \cup Digit \cup {"_"}

\* C2: the names in the savepoint sequence are pairwise distinct and each matches
\* ^[A-Za-z][A-Za-z0-9_]{0,29}$, the auto-named batch savepoints included.
C2_NamesUniqueAndValid ==
  /\ \A k \in 1..Len(savepoints) : MatchesNamePattern(savepoints[k].name)
  /\ \A j, k \in 1..Len(savepoints) :
       savepoints[j].name = savepoints[k].name => j = k

\* executeBatch has added an auto-named savepoint next to a 30-character name
C2_Witness ==
  /\ lastCall = "executeBatch"
  /\ Len(savepoints) = 2
  /\ savepoints[1].name = Letters30
  /\ savepoints[2].name = BatchSavepointName(0, now)

\* the prefix of sps up to and including the entry named name
PrefixThrough(sps, name) ==
  LET last == CHOOSE k \in 1..Len(sps) : sps[k].name = name
  IN [k \in 1..last |-> sps[k]]

\* C3: a successful rollbackToSavepoint(n) on an active transaction whose
\* sequence contains n leaves exactly the prefix up to and including n.
C3_RollbackKeepsPrefix ==
  (lastCall = "rollbackToSavepoint" /\ ~raised.thrown)
    => /\ pre.active
       /\ \E k \in 1..Len(pre.savepoints) : pre.savepoints[k].name = lastArg
       /\ savepoints = PrefixThrough(pre.savepoints, lastArg)

\* begin, create sp1, create sp2, rollback to sp1 has left [sp1]
C3_Witness ==
  /\ lastCall = "rollbackToSavepoint" /\ ~raised.thrown /\ lastArg = Sp1
  /\ Names(pre.savepoints) = <<Sp1, Sp2>>
  /\ Names(savepoints) = <<Sp1>>

\* C4: a commit() that follows a successful commit() raises the not-active
\* error, sends nothing to the connection (which has received the one commit of
\* the first call) and leaves the coordinator idle without savepoints.
C4_SecondCommitRejected ==
  (lastCall = "commit" /\ pre.ended = "commit")
    => /\ raised = NewError(<<"Nenhuma transação ativa para commit">>)
       /\ connLog = <<>>
       /\ ~isTransactionActive
       /\ savepoints = <<>>
       /\ transactionStartTime = <<>>

C4_FirstCommitSentOnce ==
  (lastCall = "commit" /\ pre.active /\ ~raised.thrown)
    => (Len(connLog) = 1 /\ connLog[1].stmt = "commit" /\ connLog[1].ok)

C4_CommitTwice == C4_SecondCommitRejected /\ C4_FirstCommitSentOnce

\* the second of two commits in a row has been refused
C4_Witness ==
  /\ lastCall = "commit" /\ pre.ended = "commit"
  /\ raised.thrown /\ connLog = <<>>

\* C5: when the connection's commit fails with cause E and autoRollbackOnError is
\* set, commit() issues rollback on the connection and then raises a
\* commit-failed error carrying E's message, whatever the rollback's outcome.
C5_CommitFailureKeepsCause ==
  (/\ lastCall = "commit" /\ pre.active /\ options.autoRollbackOnError
   /\ Len(connLog) >= 1 /\ ~connLog[1].ok)
    => /\ Len(connLog) = 2
       /\ connLog[1].stmt = "commit" /\ connLog[2].stmt = "rollback"
       /\ raised = NewError(<<"Falha no commit: ">> \o connLog[1].message)

Idle ==
  /\ ~isTransactionActive /\ savepoints = <<>>
  /\ transactionStartTime = <<>> /\ retryCount = 0

RollbackDone ==
  (lastCall = "rollback" /\ pre.active)
    => /\ Idle
       /\ Len(connLog) = 1 /\ connLog[1].stmt = "rollback"
       /\ raised.thrown = ~connLog[1].ok

\* C6 as stated: rollback() on an active transaction ends idle whether or not
\* the connection's rollback succeeds, and a following beginTransaction() succeeds.
C6_RollbackThenBeginSucceeds ==
  /\ RollbackDone
  /\ (lastCall = "beginTransaction" /\ pre.ended \in {"rollback", "rollback raised"})
       => (~raised.thrown /\ isTransactionActive)

\* C6 as amended: the following beginTransaction() is never refused as already
\* active; it succeeds unless the connection fails its isolation-level statement.
C6_RollbackThenBeginNotRefused ==
  /\ RollbackDone
  /\ (lastCall = "beginTransaction" /\ pre.ended \in {"rollback", "rollback raised"})
       => IF connLog # <<>> /\ ~connLog[1].ok
          THEN /\ raised = NewError(<<"Falha ao iniciar transação: ">>
                                       \o connLog[1].message)
               /\ options.isolation # "READ_COMMITTED"
               /\ Idle
          ELSE /\ ~raised.thrown /\ isTransactionActive
               /\ savepoints = <<>> /\ retryCount = 0

\* a transaction begun right after a rollback whose connection call had failed
C6_Witness ==
  /\ lastCall = "beginTransaction" /\ pre.ended = "rollback raised"
  /\ ~raised.thrown /\ isTransactionActive

IsDeadlock(o) == ~o.ok /\ o.isError /\ Includes(o.message, "ORA-00060")

\* C7: with maxRetries = N >= 1 and an operation that raises a deadlock error at
\* every invocation, executeWithRetry invokes it exactly N times, raises the last
\* error unchanged and has increased retryCount by N - 1.
C7_RetriesExhausted ==
  (/\ lastCall = "executeWithRetry" /\ options.maxRetries >= 1
   /\ \A k \in 1..Len(attempts) : IsDeadlock(attempts[k]))
    => /\ Len(attempts) = options.maxRetries
       /\ raised = Thrown(attempts[Len(attempts)])
       /\ retryCount = pre.retryCount + options.maxRetries - 1
       /\ sleeps = options.maxRetries - 1

\* maxRetries = 3 on an active transaction: 3 invocations, retryCount 2
C7_Witness ==
  /\ lastCall = "executeWithRetry" /\ options.maxRetries = 3
  /\ isTransactionActive /\ pre.retryCount = 0
  /\ Len(attempts) = 3 /\ \A k \in 1..3 : IsDeadlock(attempts[k])
  /\ retryCount = 2 /\ raised.thrown

\* the retryable set of the error classifier: deadlock, serialization failure,
\* resource busy without and with NOWAIT
InRetryableSet(isErr, msg) ==
  isErr /\ \E code \in {"ORA-00060", "ORA-08177", "ORA-00054", "ORA-30006"} :
             Includes(msg, code)

\* C8: an attempt that raises an error outside the retryable set ends
\* executeWithRetry at once: no further invocation, no delay, no retryCount
\* increment, and that error is what the call raises.
C8_FatalNotRetried ==
  lastCall = "executeWithRetry"
    => \A k \in 1..Len(attempts) :
         (~attempts[k].ok /\ ~InRetryableSet(attempts[k].isError, attempts[k].message))
           => /\ k = Len(attempts)
              /\ raised = Thrown(attempts[k])
              /\ sleeps = k - 1
              /\ retryCount = pre.retryCount + k - 1

\* C9: the classifier returns RETRYABLE exactly when the raised value is an Error
\* whose message contains ORA-00060, ORA-08177, ORA-00054 or ORA-30006, and FATAL
\* for every other raised value.
C9_ClassifierMatchesRetryableSet ==
  clsResult # "none"
    => (clsResult = IF InRetryableSet(clsError.isError, clsError.message)
                    THEN "RETRYABLE" ELSE "FATAL")

\* every slice succeeds fully, has per-row batch errors or throws as a whole,
\* and every commit succeeds
NoCommitFails(inp) ==
  /\ inp.finalCommitOk
  /\ \A b \in 1..Len(inp.fates) : inp.fates[b] # "commitThrow"

\* C10: with continueOnError = true every result returned by bulkInsert,
\* bulkUpdate or bulkDelete has successfulRows + failedRows = totalRows =
\* rows.length, for every mix of slices that succeed, slices with per-row
\* batch errors and slices that throw as a whole.
C10_RowCountsAddUp ==
  (/\ bulkOut.returned /\ bulkIn.kind \in {"INSERT", "UPDATE", "DELETE"}
   /\ bulkIn.continueOnError /\ NoCommitFails(bulkIn))
    => /\ bulkOut.totalRows = bulkIn.rows
       /\ bulkOut.successfulRows + bulkOut.failedRows = bulkOut.totalRows

InsertUpdateDelete == {"INSERT", "UPDATE", "DELETE"}
Called == bulkOut # NoBulkOutcome

\* the array-bind statements of the last bulk call, in the order sent
Statements == SelectSeq(bulkOut.log, LAMBDA e : e.stmt = "executeMany")

RECURSIVE SumLen(_)
SumLen(es) == IF es = <<>> THEN 0 ELSE Head(es).len + SumLen(Tail(es))

\* C11: for N >= 1 rows and batchSize B >= 1 a bulk insert/update/delete that
\* runs to completion sends exactly ceil(N/B) array-bind statements in ascending
\* order, statement k carrying rows k*B .. min((k+1)*B, N) - 1; the sizes sum to
\* N and batchCount is ceil(N/B).
C11_SlicesCoverRows ==
  (bulkOut.returned /\ bulkIn.kind \in InsertUpdateDelete /\ bulkIn.rows >= 1)
    => LET n == Slices(bulkIn.rows, bulkIn.batchSize)
           B == bulkIn.batchSize
       IN /\ Len(Statements) = n
          /\ \A k \in 1..n :
               /\ Statements[k].from = (k - 1) * B
               /\ Statements[k].from + Statements[k].len = Min(k * B, bulkIn.rows)
          /\ SumLen(Statements) = bulkIn.rows
          /\ bulkOut.batchCount = n

\* 3 rows in slices of 2: a full slice and a shorter last one
C11_Witness ==
  /\ bulkOut.returned /\ bulkIn.kind \in InsertUpdateDelete
  /\ bulkIn.rows = 3 /\ bulkIn.batchSize = 2
  /\ Len(Statements) = 2
  /\ Statements[1].len = 2 /\ Statements[2].from = 2 /\ Statements[2].len = 1

\* the entries the errors list is to hold: per slice in order, one entry per row
\* of a slice that throws as a whole, one per failed row otherwise
RECURSIVE EntryPerFailedRow(_, _, _)
EntryPerFailedRow(inp, b, i) ==
  IF i >= inp.rows THEN <<>>
  ELSE LET len == Min(inp.batchSize, inp.rows - i) IN
       (IF inp.fates[b] = "throw"
        THEN [k \in 1..len |->
                [batchIndex |-> b - 1, rowIndex |-> i + k - 1, error |-> SliceError]]
        ELSE LET offs == BadOffsets(inp, i, len, 0) IN
             [k \in 1..Len(offs) |->
                [batchIndex |-> b - 1, rowIndex |-> i + offs[k], error |-> RowError]])
         \o EntryPerFailedRow(inp, b + 1, i + inp.batchSize)

\* C12: with continueOnError = true the errors list has one entry per failed
\* row (its length is failedRows): rowIndex = slice start + offset for a per-row
\* error, one entry per row with the same message for a slice that throws as a
\* whole, in encounter order.
C12_OneEntryPerFailedRow ==
  (/\ bulkOut.returned /\ bulkIn.kind \in InsertUpdateDelete
   /\ bulkIn.continueOnError /\ NoCommitFails(bulkIn))
    => /\ Len(bulkOut.errors) = bulkOut.failedRows
       /\ bulkOut.errors = EntryPerFailedRow(bulkIn, 1, 0)
       /\ \A j, k \in 1..Len(bulkOut.errors) :
            j <= k => bulkOut.errors[j].batchIndex <= bulkOut.errors[k].batchIndex

\* the driver's message for the statement that carried the rows from f on
DriverMessage(f, len) ==
  ExecuteMany(bulkIn, (f \div bulkIn.batchSize) + 1, f, len).message

\* C13: with continueOnError = false the first slice whose statement fails makes
\* the bulk operation raise: nothing is sent after that statement, the error
\* carries the driver's message and no result is returned.
C13_FirstFailureRaises ==
  (Called /\ bulkIn.kind \in InsertUpdateDelete /\ ~bulkIn.continueOnError)
    => \A k \in 1..Len(bulkOut.log) :
         (bulkOut.log[k].stmt = "executeMany" /\ ~bulkOut.log[k].ok)
           => /\ k = Len(bulkOut.log)
              /\ ~bulkOut.returned
              /\ bulkOut.raised.thrown
              /\ LET m == DriverMessage(bulkOut.log[k].from, bulkOut.log[k].len)
                 IN Len(m) > 0 /\ \A j \in 1..Len(m) : Includes(bulkOut.raised.message, m[j])

\* a slice that is not the last one has failed and the call has raised
C13_Witness ==
  /\ Called /\ bulkIn.kind \in InsertUpdateDelete /\ ~bulkIn.continueOnError
  /\ bulkOut.raised.thrown /\ ~bulkOut.returned
  /\ Len(bulkOut.log) >= 2
  /\ LET e == bulkOut.log[Len(bulkOut.log)]
     IN e.stmt = "executeMany" /\ ~e.ok /\ e.from > 0 /\ e.from + e.len < bulkIn.rows

IsCommit(e) == e.stmt = "commit"
IsGoodStatement(e) == e.stmt = "executeMany" /\ e.ok
Commits == SelectSeq(bulkOut.log, IsCommit)

\* C14: with autoCommit true or left out, one commit follows each slice whose
\* statement did not throw and there is no other commit; with autoCommit false
\* no commit is issued during the slices and one final commit is issued exactly
\* when successfulRows > 0.
C14_CommitPolicy ==
  (Called /\ bulkIn.kind \in InsertUpdateDelete)
    => LET log == bulkOut.log IN
       IF bulkIn.autoCommit # "false"
       THEN /\ \A k \in 1..Len(log) :
                 IsGoodStatement(log[k]) => (k < Len(log) /\ IsCommit(log[k + 1]))
            /\ \A k \in 1..Len(log) :
                 IsCommit(log[k]) => (k > 1 /\ IsGoodStatement(log[k - 1]))
       ELSE /\ \A k \in 1..Len(log) : IsCommit(log[k]) => k = Len(log)
            /\ bulkOut.returned
                 => (Len(Commits) = IF bulkOut.successfulRows > 0 THEN 1 ELSE 0)

\* C15: bulkInsert, bulkUpdate, bulkDelete and bulkUpsert raise on an empty rows
\* input before any batching: nothing reaches the connection and no result is
\* returned.
C15_EmptyInputRejected ==
  (Called /\ bulkIn.rows = 0)
    => /\ bulkOut.raised.thrown
       /\ ~bulkOut.returned
       /\ bulkOut.log = <<>>

IsExecute(e) == e.stmt = "execute"
Executes == SelectSeq(connLog, IsExecute)

\* the number of connLog entries before position k that satisfy Test
CountBefore(k, Test(_)) == Cardinality({j \in 1..(k - 1) : Test(connLog[j])})

IsSavepointCreated(e) == e.stmt = "SAVEPOINT" /\ e.ok

\* the savepoint sequence when the connection call at position k of the last
\* executeBatch was made: what the call found plus what the batch had created
SavepointNamesAt(k) ==
  Names(pre.savepoints)
    \o [j \in 1..Len(SelectSeq(SubSeq(connLog, 1, k - 1), IsSavepointCreated))
          |-> SelectSeq(SubSeq(connLog, 1, k - 1), IsSavepointCreated)[j].arg]

\* C16: in executeBatch with stopOnError = true, when operation i fails the
\* coordinator rolls back to the most recently created savepoint whenever the
\* savepoint sequence is not empty (auto-created or the caller's), then raises
\* an error naming the operation and its cause, and executes no later operation.
C16_StopOnErrorRollsBack ==
  (lastCall = "executeBatch" /\ batchArgs.stopOnError)
    => \A k \in 1..Len(connLog) :
         (IsExecute(connLog[k]) /\ ~connLog[k].ok)
           => LET i == CountBefore(k, IsExecute)
                  sps == SavepointNamesAt(k)
              IN /\ IF sps # <<>>
                    THEN /\ Len(connLog) = k + 1
                         /\ connLog[k + 1].stmt = "ROLLBACK TO SAVEPOINT"
                         /\ connLog[k + 1].arg = sps[Len(sps)]
                    ELSE Len(connLog) = k
                 /\ raised = NewError(<<"Operação '">> \o OperationName(i)
                                        \o <<"' falhou: ">> \o connLog[k].message)

\* the operations of the last executeBatch whose statement was sent: all of them
\* without savepointPerOperation, else those whose savepoint was created
Executed ==
  SelectSeq([k \in 1..batchArgs.n |-> k - 1],
            LAMBDA i : batchArgs.savepointPerOperation
                         => \E j \in 1..Len(connLog) :
                              /\ IsSavepointCreated(connLog[j])
                              /\ \E t \in 0..now :
                                   connLog[j].arg = BatchSavepointName(i, t))

\* the transaction was active or the implicit beginTransaction succeeded
BatchBegun == pre.active \/ isTransactionActive

ResultsInOrder ==
  /\ ~raised.thrown
  /\ Len(batchResults) = batchArgs.n
  /\ \A k \in 1..batchArgs.n :
       batchResults[k].index = k - 1 /\ batchResults[k].name = OperationName(k - 1)

\* C17 as stated: with stopOnError = false a failing operation never makes the
\* call raise; every operation is attempted in input order and the call returns
\* one result per operation, result k with index k, success = false and the
\* error message for a failed operation, success = true for a successful one.
C17_EveryOperationAttempted ==
  (lastCall = "executeBatch" /\ ~batchArgs.stopOnError /\ BatchBegun)
    => /\ ResultsInOrder
       /\ Len(Executes) = batchArgs.n
       /\ \A k \in 1..batchArgs.n :
            /\ batchResults[k].success = Executes[k].ok
            /\ batchResults[k].error = Executes[k].message

\* C17 as amended: one result per operation in input order and no raise; the
\* operations whose per-operation savepoint could not be created are recorded
\* as failed with the savepoint error without being executed, the others are
\* executed in input order and their results tell their outcome.
C17_EveryOperationRecorded ==
  (lastCall = "executeBatch" /\ ~batchArgs.stopOnError /\ BatchBegun)
    => /\ ResultsInOrder
       /\ Len(Executes) = Len(Executed)
       /\ \A j \in 1..Len(Executed) :
            /\ batchResults[Executed[j] + 1].success = Executes[j].ok
            /\ batchResults[Executed[j] + 1].error = Executes[j].message
       /\ \A k \in 1..batchArgs.n :
            (\A j \in 1..Len(Executed) : Executed[j] # k - 1)
              => /\ ~batchResults[k].success
                 /\ batchResults[k].error[1] \in {"Savepoint '", "Falha ao criar savepoint '"}

\* two operations without stopOnError: the first failed, the second was still
\* executed and succeeded
C17_Witness ==
  /\ lastCall = "executeBatch" /\ ~batchArgs.stopOnError /\ batchArgs.n = 2
  /\ ~raised.thrown /\ Len(batchResults) = 2
  /\ ~batchResults[1].success /\ batchResults[1].error = <<"ORA-03113">>
  /\ batchResults[2].success
  /\ Len(Executes) = 2

IsBeginFailure(e) ==
  e.thrown /\ Len(e.message) >= 1 /\ e.message[1] = "Falha ao iniciar transação: "

\* C20: executeBatch on an idle coordinator first begins a transaction; it
\* executes every statement with autoCommit = false and sends neither commit nor
\* a full rollback, so the coordinator is active when the call returns or raises
\* because an operation failed.
C20_BatchLeavesTransactionOpen ==
  lastCall = "executeBatch"
    => /\ \A k \in 1..Len(connLog) :
            /\ connLog[k].stmt \notin {"commit", "rollback"}
            /\ IsExecute(connLog[k]) => connLog[k].arg = <<"autoCommit: false">>
       /\ (~pre.active /\ options.isolation # "READ_COMMITTED")
            => (Len(connLog) >= 1 /\ connLog[1].stmt = "SET TRANSACTION ISOLATION LEVEL")
       /\ (~pre.active /\ ~IsBeginFailure(raised))
            => transactionStartTime \in {<<t>> : t \in 0..now}
       /\ ~IsBeginFailure(raised) => isTransactionActive
       /\ IsBeginFailure(raised) => (~pre.active /\ Len(connLog) = 1 /\ ~connLog[1].ok)

\* a batch on an idle coordinator has begun a transaction, executed a statement
\* and raised because the second operation failed
C20_Witness ==
  /\ lastCall = "executeBatch" /\ ~pre.active /\ isTransactionActive
  /\ batchArgs.n = 2 /\ batchArgs.stopOnError
  /\ raised.thrown /\ Len(Executes) = 2
  /\ Executes[1].ok /\ ~Executes[2].ok

Present(name, sps) == \E k \in 1..Len(sps) : sps[k].name = name

\* the calls that meet a validation or state error, told from the coordinator
\* before the call
IsRejectedCall(call, name) ==
  \/ call = "beginTransaction" /\ isTransactionActive
  \/ /\ call \in {"createSavepoint", "rollbackToSavepoint", "releaseSavepoint",
                  "commit", "rollback"}
     /\ ~isTransactionActive
  \/ call = "createSavepoint"
       /\ (~MatchesNamePattern(name) \/ Present(name, savepoints))
  \/ call \in {"rollbackToSavepoint", "releaseSavepoint"}
       /\ ~Present(name, savepoints)

\* C19: every validation or state error of the coordinator is raised before any
\* statement is sent and leaves active, startedAt, the savepoint sequence and
\* retryCount unchanged: beginTransaction while active; the other calls while
\* not active; createSavepoint with a bad or present name; rollbackToSavepoint
\* or releaseSavepoint of an absent name.
C19_RejectedBeforeAnyStatement ==
  [][(now' = now /\ IsRejectedCall(lastCall', lastArg'))
       => /\ raised'.thrown
          /\ connLog' = <<>>
          /\ UNCHANGED <<isTransactionActive, transactionStartTime, savepoints,
                         retryCount>>]_vars

\* createSavepoint("1bad") has been refused on a transaction holding a savepoint
C19_Witness ==
  /\ lastCall = "createSavepoint" /\ lastArg = <<"1","b","a","d">>
  /\ raised.thrown /\ connLog = <<>>
  /\ pre.active /\ isTransactionActive
  /\ Len(savepoints) >= 1 /\ savepoints = pre.savepoints

\* the calls whose statement or commit the connection has not settled yet
InFlight == {k \in DOMAIN parOps : parOps[k].pc \in {"executeMany", "commit"}}

\* C18: no two statements of one engine are in flight at the same time on its
\* connection, for every use of the engine, parallelBulkOperations over several
\* tables included: a statement or commit is issued only after the previous one
\* has completed.
C18_OneStatementAtATime == Cardinality(InFlight) <= 1

C22_MissingColumnBoundUndefined ==
  (Called /\ bulkIn.kind = "INSERT" /\ bulkIn.missing # {})
    => /\ ~bulkOut.raised.thrown
       /\ \A r \in bulkIn.missing :
            \E k \in 1..Len(bulkOut.log) :
              LET e == bulkOut.log[k] IN
              /\ e.stmt = "executeMany" /\ e.from <= r /\ r < e.from + e.len
              /\ e.binds[r - e.from + 1] = "undefined"

IsStatement(e) == e.stmt \in {"executeMany", "execute"}

\* the leading keyword of the statement each kind of bulk operation is to issue
StatementOf(kind) == IF kind = "UPSERT" THEN "MERGE" ELSE kind

\* C23: each bulk entry point issues its own kind of statement and reports its
\* own operationKind: INSERT, UPDATE .. SET .. WHERE, DELETE FROM .. WHERE, and a
\* single merge statement reported as UPSERT.
C23_OwnStatementAndKind ==
  (Called /\ bulkIn.rows >= 1)
    => /\ \A k \in 1..Len(bulkOut.log) :
            IsStatement(bulkOut.log[k]) => bulkOut.log[k].sql = StatementOf(bulkIn.kind)
       /\ bulkOut.returned => bulkOut.operation = bulkIn.kind
       /\ (bulkOut.returned /\ bulkIn.kind = "UPSERT")
            => Len(SelectSeq(bulkOut.log, IsStatement)) = 1

\* C24: when the connection's commit fails and autoRollbackOnError is false,
\* commit() raises the commit-failed error, issues no rollback and leaves the
\* transaction active with its savepoints, startedAt and retryCount unchanged.
C24_FailedCommitKeepsTransaction ==
  [][(/\ now' = now /\ lastCall' = "commit"
      /\ isTransactionActive /\ ~options.autoRollbackOnError
      /\ connLog' # <<>> /\ ~connLog'[1].ok)
       => /\ Len(connLog') = 1 /\ connLog'[1].stmt = "commit"
          /\ raised' = NewError(<<"Falha no commit: ">> \o connLog'[1].message)
          /\ isTransactionActive'
          /\ UNCHANGED <<transactionStartTime, savepoints, retryCount>>]_vars

\* a commit has failed on a transaction that holds a savepoint and stays active
C24_Witness ==
  /\ lastCall = "commit" /\ ~options.autoRollbackOnError
  /\ Len(connLog) = 1 /\ ~connLog[1].ok
  /\ raised.thrown /\ isTransactionActive
  /\ Len(savepoints) >= 1 /\ savepoints = pre.savepoints
  /\ transactionStartTime # <<>>

\* C25: with autoCommit true and continueOnError = true, when the commit of a
\* slice raises after its statement succeeded, every row of the slice is counted
\* once: successfulRows <= totalRows and successfulRows + failedRows = totalRows
\* in the returned result.
C25_CommitFailureCountsOnce ==
  (/\ bulkOut.returned /\ bulkIn.kind \in InsertUpdateDelete
   /\ bulkIn.continueOnError /\ bulkIn.autoCommit # "false"
   /\ bulkIn.badRows = {}
   /\ \E b \in 1..Len(bulkIn.fates) : bulkIn.fates[b] = "commitThrow")
    => /\ bulkOut.successfulRows <= bulkOut.totalRows
       /\ bulkOut.successfulRows + bulkOut.failedRows = bulkOut.totalRows

\* the rollback at position k of the last executeBatch undoes the statement
\* executed at position j: its target savepoint was not created after j
Undoes(k, j) ==
  /\ j < k /\ IsExecute(connLog[j]) /\ connLog[j].ok
  /\ ~\E m \in (j + 1)..(k - 1) :
        IsSavepointCreated(connLog[m]) /\ connLog[m].arg = connLog[k].arg

\* C26: in executeBatch with savepointPerOperation and stopOnError, when
\* operation i fails at its savepoint or at its statement, the rollback that is
\* issued targets the savepoint created for operation i, so the effects of the
\* executed operations 0..i-1 stay in the open transaction.
C26_RollbackSparesEarlierOperations ==
  (/\ lastCall = "executeBatch"
   /\ batchArgs.savepointPerOperation /\ batchArgs.stopOnError)
    => \A k \in 1..Len(connLog) :
         connLog[k].stmt = "ROLLBACK TO SAVEPOINT"
           => /\ \E t \in 0..now :
                   connLog[k].arg = BatchSavepointName(Len(batchResults) - 1, t)
              /\ \A j \in 1..(k - 1) : ~Undoes(k, j)

\* C27: every bulk call ends, by returning or by raising, for every non-empty
\* row array and every integer batchSize, zero and negative included, provided
\* every call on the connection returns
C27_BulkCallTerminates ==
  <>(\A k \in DOMAIN parOps : parOps[k].pc \in {"returned", "raised"})

\* a call on the connection that ends or undoes the transaction
EndsTransaction(e) == e.stmt \in {"commit", "rollback"}
FailedStatement(e) == e.stmt = "executeMany" /\ ~e.ok

\* C28: with autoCommit false and continueOnError false, a bulk call one of whose
\* slices raises sends neither a commit nor a rollback at any point and raises
\* to its caller
C28_FailedSliceLeavesTransactionOpen ==
  (/\ Called
   /\ bulkIn.kind \in InsertUpdateDelete
   /\ bulkIn.autoCommit = "false" /\ ~bulkIn.continueOnError
   /\ SelectSeq(bulkOut.log, FailedStatement) # <<>>)
  => /\ SelectSeq(bulkOut.log, EndsTransaction) = <<>>
     /\ bulkOut.raised.thrown /\ ~bulkOut.returned

\* a later slice raises after an earlier one succeeded, and nothing was committed
C28_Witness ==
  /\ Called
  /\ bulkIn.kind = "INSERT"
  /\ bulkIn.autoCommit = "false" /\ ~bulkIn.continueOnError
  /\ Len(bulkOut.log) = 2
  /\ IsGoodStatement(bulkOut.log[1])
  /\ FailedStatement(bulkOut.log[2])
  /\ bulkOut.raised.thrown

\* C29: an error that executeTransaction lets reach its caller is the failure
\* its catch clause received, with that failure's message; the clean-up rollback
\* never puts an error of its own in its place
C29_OriginalFailureReachesCaller ==
  (handlerOut.called /\ handlerOut.caught.thrown)
    => handlerOut.raised = handlerOut.caught

\* the names of the savepoint list are pairwise different
UniqueNames(sps) ==
  \A j, k \in 1..Len(sps) : sps[j].name = sps[k].name => j = k

\* C30: when calls on one coordinator overlap at their awaits, an inactive
\* coordinator still has no savepoints and the savepoint names stay unique: a
\* createSavepoint that waits for its statement while commit() or rollback()
\* completes appends nothing to the inactive coordinator, and of two waiting
\* createSavepoint calls with one name at most one appends it
C30_InvariantUnderOverlap ==
  /\ (~isTransactionActive => savepoints = <<>>)
  /\ UniqueNames(savepoints)

====
